---- MODULE Spec2Model ----
(***************************************************************************)
(* Mesh revision (MeshLib::MeshRevision and the duplicate functions of     *)
(* DuplicateMeshComponents): collapsing of nodes closer than a tolerance,  *)
(* reduction of elements whose nodes were collapsed, subdivision of        *)
(* non-planar elements.                                                    *)
(*                                                                         *)
(* Conventions.  Storage positions and node identifiers are counted from 1 *)
(* (the source counts from 0): "identifier = storage position" reads       *)
(* ids[p] = p.  Local node numbers inside an element stay 0-based, as in   *)
(* the look-up tables of the source.  Node coordinates are one-dimensional *)
(* integers; the cube around a node is then an interval.  Half a tolerance *)
(* is not an integer, so every comparison against eps/2 is made on doubled *)
(* values.                                                                 *)
(***************************************************************************)
EXTENDS Integers, Sequences, FiniteSets, TLC

VARIABLES
    nodes,          \* coordinates of the nodes of _mesh, by storage position
    ids,            \* current identifier of every node of _mesh (Node::_id)
    elems,          \* the elements of _mesh
    cell,           \* edge length of a grid cell of GeoLib::Grid
    pc,             \* position inside the running operation
    op,             \* the running operation
    eps,            \* argument eps of the running operation
    min_elem_dim,   \* argument min_elem_dim of simplifyMesh
    id_map,         \* local id_map of collapseNodeIndeces
    k,              \* outer loop counter of collapseNodeIndeces
    todo,           \* candidate nodes of the inner loops not yet visited
    new_nodes,      \* local new_nodes: coordinates of the nodes created
    new_elements,   \* local new_elements: the elements created
    origin,         \* for every entry of new_elements the source element
    e,              \* loop position in the element vector
    ret,            \* what the operation returned
    cleaned         \* number of cleanUp runs of the operation

vars == <<nodes, ids, elems, cell, pc, op, eps, min_elem_dim, id_map, k, todo,
          new_nodes, new_elements, origin, e, ret, cleaned>>

----------------------------------------------------------------------------
(* Bounds of the explored inputs.                                          *)

MaxNodes == 3
MaxCoord == 4
MaxEps == 4
MaxCell == 2

----------------------------------------------------------------------------
(* Small helpers.                                                          *)

Identity(n) == [p \in 1..n |-> p]

Range(s) == {s[i] : i \in DOMAIN s}

Min(S) == CHOOSE x \in S : \A y \in S : x <= y

Max(S) == CHOOSE x \in S : \A y \in S : x >= y

SeqsUpTo(S, n) == UNION {[1..m -> S] : m \in 0..n}

Clamp(x, lo, hi) == IF x < lo THEN lo ELSE IF x > hi THEN hi ELSE x

----------------------------------------------------------------------------
(* GeoLib::Grid: a uniform grid over the bounding box of the nodes.        *)
(* Every node lies in exactly one cell.  A query returns the nodes of all  *)
(* cells that intersect the cube [c - half_len, c + half_len]; cell        *)
(* numbers outside the grid are clamped to the grid.                       *)

GridOrigin(ns) == Min(Range(ns))

GridSteps(ns, g) == ((Max(Range(ns)) - Min(Range(ns))) \div g) + 1

\* cell number of a point given by its doubled coordinate
GridCoord2(ns, g, x2) ==
    Clamp((x2 - 2 * GridOrigin(ns)) \div (2 * g), 0, GridSteps(ns, g) - 1)

\* the nodes handed out for the cube of half length len2/2 around node p
getPntVecsOfGridCellsIntersectingCube(ns, g, p, len2) ==
    LET lo == GridCoord2(ns, g, 2 * ns[p] - len2)
        hi == GridCoord2(ns, g, 2 * ns[p] + len2)
    IN {t \in DOMAIN ns : LET c == GridCoord2(ns, g, 2 * ns[t])
                          IN lo <= c /\ c <= hi}

sqrDist(x, y) == (x - y) * (x - y)

----------------------------------------------------------------------------
(* MeshRevision::collapseNodeIndeces                                        *)

\* the body of the innermost loop taking at most one test node per node p
VisitAtMostOne(ns, idv, m, p, t, tol) ==
    IF m[idv[p]] = m[idv[t]] THEN m
    ELSE IF idv[t] # m[idv[t]] THEN m
    ELSE IF \E x \in DOMAIN m : x # idv[p] /\ m[x] = idv[p] THEN m
    ELSE IF sqrDist(ns[p], ns[t]) < tol * tol
         THEN [m EXCEPT ![idv[t]] = idv[p]]
         ELSE m

\* the body of the innermost loop for node p and test node t
Visit(ns, idv, m, p, t, tol) ==
    IF m[idv[p]] = m[idv[t]] THEN m
    ELSE IF idv[t] # m[idv[t]] THEN m
    ELSE IF sqrDist(ns[p], ns[t]) < tol * tol
         THEN [m EXCEPT ![idv[t]] = idv[p]]
         ELSE m

\* the nodes tested against node p: those of the cells around p
Candidates(ns, g, p, tol) == getPntVecsOfGridCellsIntersectingCube(ns, g, p, tol)

\* the folds below hand each intermediate map on through a one-element set,
\* which makes it a value that is computed once
RECURSIVE VisitAll(_, _, _, _, _, _)
VisitAll(ns, idv, m, p, cands, tol) ==
    IF cands = {} THEN m
    ELSE LET t == Min(cands)
         IN CHOOSE r \in {VisitAll(ns, idv, v, p, cands \ {t}, tol) :
                              v \in {Visit(ns, idv, m, p, t, tol)}} : TRUE

RECURSIVE CollapseFrom(_, _, _, _, _, _)
CollapseFrom(ns, idv, g, tol, m, p) ==
    IF p > Len(ns) THEN m
    ELSE IF idv[p] # p THEN CollapseFrom(ns, idv, g, tol, m, p + 1)
    ELSE CHOOSE r \in {CollapseFrom(ns, idv, g, tol, v, p + 1) :
                          v \in {VisitAll(ns, idv, m, p, Candidates(ns, g, p, tol), tol)}} :
             TRUE

\* the whole function, the cells and their nodes taken in ascending order
collapseNodeIndeces(ns, idv, g, tol) ==
    CollapseFrom(ns, idv, g, tol, Identity(Len(ns)), 1)

----------------------------------------------------------------------------
(* Elements.  An element of _mesh is a record [type, nodes, value, flag]:  *)
(* nodes are storage positions of nodes of _mesh, flag is the NonCoplanar  *)
(* bit of validate().  A created element is a record [type, nodes, value], *)
(* its nodes are positions in new_nodes.  The reducers and subdividers     *)
(* read an element only through the identifiers of its nodes and its       *)
(* value, and every node they take is nodes[identifier]; they are written  *)
(* over n, the sequence of these identifiers (n[i + 1] is                  *)
(* getNode(i)->getID()).                                                   *)

ElemTypes == {"LINE", "TRIANGLE", "QUAD", "TETRAHEDRON", "HEXAHEDRON",
              "PYRAMID", "PRISM"}

\* std::numeric_limits<unsigned>::max(), the value of the tables for "none";
\* it is only compared and used as an index no element has, so the largest
\* number of the model checker stands for it
UnsignedMax == 2147483647

\* a null pointer or a pointer read from outside an array
NullNode == 0

NullElement == [type |-> "NULL", nodes |-> <<>>, value |-> 0]

getNNodes(type) ==
    CASE type = "LINE" -> 2
      [] type = "TRIANGLE" -> 3
      [] type = "QUAD" -> 4
      [] type = "TETRAHEDRON" -> 4
      [] type = "HEXAHEDRON" -> 8
      [] type = "PYRAMID" -> 5
      [] type = "PRISM" -> 6
      [] OTHER -> 2

getDimension(type) ==
    CASE type = "LINE" -> 1
      [] type = "TRIANGLE" -> 2
      [] type = "QUAD" -> 2
      [] type = "TETRAHEDRON" -> 3
      [] type = "HEXAHEDRON" -> 3
      [] type = "PYRAMID" -> 3
      [] type = "PRISM" -> 3
      [] OTHER -> 1

\* the types whose validate() tests the planarity of a quadrilateral
CanBeNonCoplanar(type) == type \notin {"LINE", "TRIANGLE", "TETRAHEDRON"}

\* getNode(i)->getID(); a read outside the node array gives no node
IdAt(n, i) == IF i \in 0..(Len(n) - 1) THEN n[i + 1] ELSE NullNode

\* an element constructed without the value argument
NewElementDefaultValue(type, ns, v) == [type |-> type, nodes |-> ns, value |-> 0]

NewElement(type, ns, v) == [type |-> type, nodes |-> ns, value |-> v]

\* the identifiers of the nodes of element el
NodeIds(el, idv) == [i \in DOMAIN el.nodes |-> idv[el.nodes[i]]]

\* (i, j) before (k, l) in the order of two nested ascending loops
PairBefore(a, b) == a[1] < b[1] \/ (a[1] = b[1] /\ a[2] < b[2])

FirstPair(S) == CHOOSE a \in S : \A b \in S : a = b \/ PairBefore(a, b)

\* the pairs i < j of local nodes with the same identifier
EqualPairs(n) ==
    {p \in (0..(Len(n) - 1)) \X (0..(Len(n) - 1)) :
        p[1] < p[2] /\ IdAt(n, p[1]) = IdAt(n, p[2])}

----------------------------------------------------------------------------
(* Topology of the hexahedron (TemplateHex): bottom 0 1 2 3, top 4 5 6 7,  *)
(* node i + 4 above node i.                                                *)

HexFaceNodes ==
    <<  <<0, 3, 2, 1>>, <<0, 1, 5, 4>>, <<1, 2, 6, 5>>,
        <<2, 3, 7, 6>>, <<3, 0, 4, 7>>, <<4, 5, 6, 7>>  >>

HexEdgeNodes ==
    {<<0, 1>>, <<1, 2>>, <<2, 3>>, <<0, 3>>, <<4, 5>>, <<5, 6>>,
     <<6, 7>>, <<4, 7>>, <<0, 4>>, <<1, 5>>, <<2, 6>>, <<3, 7>>}

HexIsEdge(i, j) == <<i, j>> \in HexEdgeNodes \/ <<j, i>> \in HexEdgeNodes

PrismEdgeNodes ==
    {<<0, 1>>, <<1, 2>>, <<0, 2>>, <<0, 3>>, <<1, 4>>, <<2, 5>>,
     <<3, 4>>, <<4, 5>>, <<3, 5>>}

----------------------------------------------------------------------------
(* The look-up tables of MeshRevision.                                     *)

hex_diametral_nodes == <<6, 7, 4, 5, 2, 3, 0, 1>>

lutHexDiametralNode(id) ==
    IF id \in 0..7 THEN hex_diametral_nodes[id + 1] ELSE UnsignedMax

HexCuttingQuadTable ==
    {<< <<0, 1>>, <<3, 2, 5, 4>> >>, << <<1, 2>>, <<0, 3, 6, 5>> >>,
     << <<2, 3>>, <<1, 0, 7, 6>> >>, << <<3, 0>>, <<2, 1, 4, 7>> >>,
     << <<4, 5>>, <<0, 1, 6, 7>> >>, << <<5, 6>>, <<1, 2, 7, 4>> >>,
     << <<6, 7>>, <<2, 3, 4, 5>> >>, << <<7, 4>>, <<3, 0, 5, 6>> >>,
     << <<0, 4>>, <<3, 7, 5, 1>> >>, << <<1, 5>>, <<0, 4, 6, 2>> >>,
     << <<2, 6>>, <<1, 5, 7, 3>> >>, << <<3, 7>>, <<2, 6, 4, 0>> >>,
     << <<1, 0>>, <<2, 3, 4, 5>> >>, << <<2, 1>>, <<3, 0, 5, 6>> >>,
     << <<3, 2>>, <<0, 1, 6, 7>> >>, << <<0, 3>>, <<1, 2, 7, 4>> >>,
     << <<5, 4>>, <<1, 0, 7, 6>> >>, << <<6, 5>>, <<2, 1, 4, 7>> >>,
     << <<7, 6>>, <<3, 2, 5, 4>> >>, << <<4, 7>>, <<0, 3, 6, 5>> >>,
     << <<4, 0>>, <<7, 3, 1, 5>> >>, << <<5, 1>>, <<4, 0, 2, 6>> >>,
     << <<6, 2>>, <<5, 1, 3, 7>> >>, << <<7, 3>>, <<6, 2, 0, 4>> >>}

HexCuttingQuadKeys == {r[1] : r \in HexCuttingQuadTable}

\* the table with its first twelve rows only (lines 740-751)
lutHexCuttingQuadNodesForwardOnly(id1, id2, u) ==
    IF <<id1, id2>> \in {<<0, 1>>, <<1, 2>>, <<2, 3>>, <<3, 0>>, <<4, 5>>, <<5, 6>>,
                         <<6, 7>>, <<7, 4>>, <<0, 4>>, <<1, 5>>, <<2, 6>>, <<3, 7>>}
    THEN (CHOOSE r \in HexCuttingQuadTable : r[1] = <<id1, id2>>)[2]
    ELSE u

\* u is the content of the local array when no branch assigns it
lutHexCuttingQuadNodes(id1, id2, u) ==
    IF <<id1, id2>> \in HexCuttingQuadKeys
    THEN (CHOOSE r \in HexCuttingQuadTable : r[1] = <<id1, id2>>)[2]
    ELSE u

lutHexBackNodes(i, j, kk, l) ==
    IF lutHexDiametralNode(i) = kk THEN <<i, lutHexDiametralNode(l)>>
    ELSE IF lutHexDiametralNode(i) = l THEN <<i, lutHexDiametralNode(kk)>>
    ELSE IF lutHexDiametralNode(j) = kk THEN <<j, lutHexDiametralNode(l)>>
    ELSE IF lutHexDiametralNode(j) = l THEN <<j, lutHexDiametralNode(kk)>>
    ELSE IF i = kk THEN <<lutHexDiametralNode(l), j>>
    ELSE IF i = l THEN <<lutHexDiametralNode(kk), j>>
    ELSE IF j = kk THEN <<lutHexDiametralNode(l), i>>
    ELSE IF j = l THEN <<lutHexDiametralNode(kk), i>>
    ELSE <<UnsignedMax, UnsignedMax>>

\* the table with the rows of the bottom triangle only (lines 786-788)
lutPrismThirdNodeBottomOnly(id1, id2) ==
    IF (id1 = 0 /\ id2 = 1) \/ (id1 = 1 /\ id2 = 2) THEN 2
    ELSE IF (id1 = 1 /\ id2 = 2) \/ (id1 = 2 /\ id2 = 1) THEN 0
    ELSE IF (id1 = 0 /\ id2 = 2) \/ (id1 = 2 /\ id2 = 0) THEN 1
    ELSE UnsignedMax

lutPrismThirdNode(id1, id2) ==
    IF (id1 = 0 /\ id2 = 1) \/ (id1 = 1 /\ id2 = 2) THEN 2
    ELSE IF (id1 = 1 /\ id2 = 2) \/ (id1 = 2 /\ id2 = 1) THEN 0
    ELSE IF (id1 = 0 /\ id2 = 2) \/ (id1 = 2 /\ id2 = 0) THEN 1
    ELSE IF (id1 = 3 /\ id2 = 4) \/ (id1 = 4 /\ id2 = 3) THEN 5
    ELSE IF (id1 = 4 /\ id2 = 5) \/ (id1 = 5 /\ id2 = 4) THEN 3
    ELSE IF (id1 = 3 /\ id2 = 5) \/ (id1 = 5 /\ id2 = 3) THEN 4
    ELSE UnsignedMax

----------------------------------------------------------------------------
(* MeshRevision::getNUniqueNodes                                            *)

getNUniqueNodes(n) ==
    Len(n) - Cardinality({i \in 0..(Len(n) - 2) :
                            \E j \in (i + 1)..(Len(n) - 1) : IdAt(n, i) = IdAt(n, j)})

----------------------------------------------------------------------------
(* The subdividers.  Each returns the elements it appends.                 *)

subdivideQuad(n, v) ==
    << NewElement("TRIANGLE", <<IdAt(n, 0), IdAt(n, 1), IdAt(n, 2)>>, v),
       NewElement("TRIANGLE", <<IdAt(n, 0), IdAt(n, 2), IdAt(n, 3)>>, v) >>

subdividePrism(n, v) ==
    << NewElement("TETRAHEDRON", <<IdAt(n, 0), IdAt(n, 1), IdAt(n, 2), IdAt(n, 3)>>, v),
       NewElement("TETRAHEDRON", <<IdAt(n, 3), IdAt(n, 2), IdAt(n, 4), IdAt(n, 5)>>, v),
       NewElement("TETRAHEDRON", <<IdAt(n, 2), IdAt(n, 1), IdAt(n, 3), IdAt(n, 4)>>, v) >>

\* the subdivision of a hexahedron that stops after the first prism
subdivideHexFirstPrism(n, v) ==
    subdividePrism(<<IdAt(n, 0), IdAt(n, 2), IdAt(n, 1),
                     IdAt(n, 4), IdAt(n, 6), IdAt(n, 5)>>, v)

\* the two prisms are built on the new nodes; the identifier of a new node
\* is its position in new_nodes
subdivideHex(n, v) ==
    subdividePrism(<<IdAt(n, 0), IdAt(n, 2), IdAt(n, 1),
                     IdAt(n, 4), IdAt(n, 6), IdAt(n, 5)>>, v)
    \o subdividePrism(<<IdAt(n, 4), IdAt(n, 6), IdAt(n, 7),
                        IdAt(n, 0), IdAt(n, 2), IdAt(n, 3)>>, v)

subdividePyramid(n, v) ==
    << NewElement("TETRAHEDRON", <<IdAt(n, 0), IdAt(n, 1), IdAt(n, 2), IdAt(n, 4)>>, v),
       NewElement("TETRAHEDRON", <<IdAt(n, 0), IdAt(n, 2), IdAt(n, 3), IdAt(n, 4)>>, v) >>

\* the elements appended; the function returns whether there are any
subdivideElement(type, n, v) ==
    CASE type = "QUAD" -> subdivideQuad(n, v)
      [] type = "HEXAHEDRON" -> subdivideHex(n, v)
      [] type = "PYRAMID" -> subdividePyramid(n, v)
      [] type = "PRISM" -> subdividePrism(n, v)
      [] OTHER -> <<>>

----------------------------------------------------------------------------
(* Geometry.  The coordinates of the model do not decide planarity, so the *)
(* outcome of every geometric test made while one element is reduced is a  *)
(* field of a record g chosen when the element is processed:               *)
(*   g.cop     isCoplanar of the four nodes in constructFourNodeElement    *)
(*   g.swaps   how often the quadrilateral built there fails validate()    *)
(*   g.pcop    isCoplanar in the first and the second call of reducePrism  *)
(*   g.uninit  content of the unassigned array in lutHexCuttingQuadNodes   *)

UninitArrays == {<<0, 0, 0, 0>>, <<3, 2, 5, 4>>, <<8, 8, 8, 8>>}

DefaultGeom == [cop |-> FALSE, swaps |-> 0, pcop |-> <<FALSE, FALSE>>,
                uninit |-> <<0, 0, 0, 0>>]

\* the outcomes that can matter for an element of this type and unique count
GeomChoices(type, nu) ==
    {g \in [cop : BOOLEAN, swaps : 0..2, pcop : BOOLEAN \X BOOLEAN,
            uninit : UninitArrays] :
        /\ (~(nu = 4 \/ (type = "HEXAHEDRON" /\ nu = 5))) => g.cop = DefaultGeom.cop
        /\ (~g.cop) => g.swaps = DefaultGeom.swaps
        /\ (~(type = "HEXAHEDRON" /\ nu \in {6, 7})) => g.uninit = DefaultGeom.uninit
        /\ (~(nu = 5 /\ type = "PRISM") /\ ~(nu = 6 /\ type = "HEXAHEDRON"))
              => g.pcop = DefaultGeom.pcop
        /\ (nu = 5 /\ type = "PRISM") => g.pcop[2] = DefaultGeom.pcop[2]}

\* the default argument min_elem_dim of constructFourNodeElement
DefaultMinElemDim == 1

----------------------------------------------------------------------------
(* The constructors of MeshRevision.  Each returns the sequence of the     *)
(* elements it returns: empty for a null pointer.                          *)

constructLine(n, v) ==
    LET others == {i \in 1..(Len(n) - 1) : IdAt(n, i) # IdAt(n, 0)}
    IN << NewElement("LINE",
                     <<IdAt(n, 0),
                       IF others = {} THEN NullNode ELSE IdAt(n, Min(others))>>,
                     v) >>

constructTri(n, v) ==
    LET firsts == {i \in 1..(Len(n) - 1) :
                     /\ IdAt(n, i) # IdAt(n, 0)
                     /\ \E j \in (i + 1)..(Len(n) - 1) : IdAt(n, j) # IdAt(n, i)}
    IN IF firsts = {}
       THEN << NewElement("TRIANGLE", <<IdAt(n, 0), NullNode, NullNode>>, v) >>
       ELSE LET i == Min(firsts)
                j == Min({x \in (i + 1)..(Len(n) - 1) : IdAt(n, x) # IdAt(n, i)})
            IN << NewElement("TRIANGLE", <<IdAt(n, 0), IdAt(n, i), IdAt(n, j)>>, v) >>

\* the local nodes that repeat no earlier node, in ascending order
RECURSIVE FirstOccurrences(_, _)
FirstOccurrences(n, i) ==
    IF i >= Len(n) THEN <<>>
    ELSE IF \E j \in 0..(i - 1) : IdAt(n, i) = IdAt(n, j)
         THEN FirstOccurrences(n, i + 1)
         ELSE <<IdAt(n, i)>> \o FirstOccurrences(n, i + 1)

\* new_nodes filled from the first four nodes without the uniqueness test
FirstFourUntested(n) == [x \in 1..4 |-> IdAt(n, x - 1)]

\* new_nodes of constructFourNodeElement: the first four entries
FirstFour(n) ==
    LET f == FirstOccurrences(n, 0)
    IN [x \in 1..4 |-> IF x <= Len(f) THEN f[x] ELSE NullNode]

\* the array after s failed validations
SwappedQuad(a, s) ==
    CASE s = 0 -> a
      [] s = 1 -> <<a[1], a[3], a[2], a[4]>>
      [] OTHER -> <<a[1], a[3], a[4], a[2]>>

\* the four-node constructor without the test of min_elem_dim at line 694
constructFourNodeElementNoFloor(n, v, dim, g) ==
    IF g.cop
    THEN << NewElement("QUAD", SwappedQuad(FirstFour(n), g.swaps), v) >>
    ELSE << NewElement("TETRAHEDRON", FirstFour(n), v) >>

constructFourNodeElement(n, v, dim, g) ==
    IF g.cop /\ dim < 3
    THEN << NewElement("QUAD", SwappedQuad(FirstFour(n), g.swaps), v) >>
    ELSE IF ~g.cop
    THEN << NewElement("TETRAHEDRON", FirstFour(n), v) >>
    ELSE <<>>

\* the first local node whose identifier is none of base
findPyramidTopNode(n, base) ==
    LET tops == {i \in 0..(Len(n) - 1) : \A j \in 1..4 : IdAt(n, i) # base[j]}
    IN IF tops = {} THEN UnsignedMax ELSE Min(tops)

----------------------------------------------------------------------------
(* The reducers.  Each returns the elements it appends to new_elements.    *)

\* lines 569-582: a non-triangle edge (i, i + 3) collapsed
PrismLateralTets(n, v, i) ==
    << NewElement("TETRAHEDRON",
                  <<IdAt(n, (i + 1) % 3), IdAt(n, (i + 2) % 3), IdAt(n, i),
                    IdAt(n, ((i + 1) % 3) + 3)>>, v),
       NewElement("TETRAHEDRON",
                  <<IdAt(n, ((i + 1) % 3) + 3), IdAt(n, (i + 2) % 3), IdAt(n, i),
                    IdAt(n, ((i + 2) % 3) + 3)>>, v) >>

\* lines 586-607: a triangle edge (i, j) collapsed
PrismTriangleTets(n, v, i, j, cop) ==
    LET offset == IF i > 2 THEN -3 ELSE 3
        t == lutPrismThirdNode(i, j)
        l == IF cop THEN j ELSE i
    IN IF t = UnsignedMax THEN <<>>
       ELSE << NewElement("TETRAHEDRON",
                          <<IdAt(n, i + offset), IdAt(n, j + offset),
                            IdAt(n, t + offset), IdAt(n, i)>>, v),
               NewElement("TETRAHEDRON",
                          <<IdAt(n, l + offset), IdAt(n, t + offset),
                            IdAt(n, i), IdAt(n, t)>>, v) >>

reducePrism(n, nu, v, dim, g, cop) ==
    IF nu = 5
    THEN IF EqualPairs(n) = {} THEN <<>>
         ELSE LET p == FirstPair(EqualPairs(n))
              IN IF p[1] % 3 = p[2] % 3
                 THEN PrismLateralTets(n, v, p[1])
                 ELSE PrismTriangleTets(n, v, p[1], p[2], cop)
    ELSE IF nu = 4 THEN constructFourNodeElement(n, v, dim, g)
    ELSE IF nu = 3 /\ dim < 3 THEN constructTri(n, v)
    ELSE IF nu = 2 /\ dim = 1 THEN constructLine(n, v)
    ELSE <<>>

reducePyramid(n, nu, v, dim, g) ==
    IF nu = 4 THEN constructFourNodeElement(n, v, dim, g)
    ELSE IF nu = 3 /\ dim < 3 THEN constructTri(n, v)
    ELSE IF nu = 2 /\ dim = 1 THEN constructLine(n, v)
    ELSE <<>>

\* lines 375-402: seven unique nodes, pyramid and prism
HexSevenNodes(n, v, g) ==
    LET p == FirstPair(EqualPairs(n))
        base == lutHexCuttingQuadNodes(p[1], p[2], g.uninit)
        swap == p[1] < 4 /\ p[2] >= 4
        i == IF swap THEN p[2] ELSE p[1]
        j == IF swap THEN p[1] ELSE p[2]
    IN << NewElement("PYRAMID",
                     <<IdAt(n, base[1]), IdAt(n, base[2]), IdAt(n, base[3]),
                       IdAt(n, base[4]), IdAt(n, p[1])>>, v),
          NewElement("PRISM",
                     <<IdAt(n, base[1]), IdAt(n, base[4]),
                       IdAt(n, lutHexDiametralNode(j)),
                       IdAt(n, base[2]), IdAt(n, base[3]),
                       IdAt(n, lutHexDiametralNode(i))>>, v) >>

\* line 409 and line 422: the two tests made on a face
FaceFirstTest(n, f) ==
    IdAt(n, f[1]) = IdAt(n, f[2]) /\ IdAt(n, f[3]) = IdAt(n, f[4])

FaceSecondTest(n, f) ==
    IdAt(n, f[1]) = IdAt(n, f[4]) /\ IdAt(n, f[2]) = IdAt(n, f[3])

\* lines 411-418: the prism of the first test; it is appended
HexFacePrismFirst(n, v, f) ==
    << NewElement("PRISM",
                  <<IdAt(n, lutHexDiametralNode(f[1])),
                    IdAt(n, lutHexDiametralNode(f[2])),
                    IdAt(n, f[3]),
                    IdAt(n, lutHexDiametralNode(f[3])),
                    IdAt(n, lutHexDiametralNode(f[4])),
                    IdAt(n, f[1])>>, v) >>

\* lines 424-432: the node array of the second test is filled and dropped
HexFacePrismSecond(n, v, f) == <<>>

\* the faces on which one of the two tests succeeds
HexCollapsedFaces(n) ==
    {x \in 1..6 : FaceFirstTest(n, HexFaceNodes[x]) \/ FaceSecondTest(n, HexFaceNodes[x])}

\* lines 437-444: the quadruples the four nested loops stop at
HexEdgePairs(n) ==
    {q \in EqualPairs(n) \X EqualPairs(n) :
        /\ q[2][1] >= q[1][1]
        /\ q[1] # q[2]
        /\ HexIsEdge(q[1][1], q[1][2])
        /\ HexIsEdge(q[2][1], q[2][2])}

QuadrupleBefore(a, b) ==
    PairBefore(a[1], b[1]) \/ (a[1] = b[1] /\ PairBefore(a[2], b[2]))

\* lines 446-475: two prisms, each reduced as a prism with five unique nodes
HexTwoPrisms(n, v, dim, g, q) ==
    LET back == lutHexBackNodes(q[1][1], q[1][2], q[2][1], q[2][2])
    IN IF back[1] = UnsignedMax \/ back[2] = UnsignedMax THEN <<>>
       ELSE LET cut == lutHexCuttingQuadNodes(back[1], back[2], g.uninit)
                pris1 == <<IdAt(n, back[1]), IdAt(n, cut[1]), IdAt(n, cut[4]),
                           IdAt(n, back[2]), IdAt(n, cut[2]), IdAt(n, cut[3])>>
                pris2 == <<IdAt(n, lutHexDiametralNode(back[1])), IdAt(n, cut[1]),
                           IdAt(n, cut[4]),
                           IdAt(n, lutHexDiametralNode(back[2])), IdAt(n, cut[2]),
                           IdAt(n, cut[3])>>
            IN reducePrism(pris1, 5, v, dim, g, g.pcop[1])
               \o reducePrism(pris2, 5, v, dim, g, g.pcop[2])

\* lines 403-478: six unique nodes
HexSixNodes(n, v, dim, g) ==
    IF HexCollapsedFaces(n) # {}
    THEN LET f == HexFaceNodes[Min(HexCollapsedFaces(n))]
         IN IF FaceFirstTest(n, f)
            THEN HexFacePrismFirst(n, v, f)
            ELSE HexFacePrismSecond(n, v, f)
    ELSE IF HexEdgePairs(n) = {} THEN <<>>
    ELSE HexTwoPrisms(n, v, dim, g,
            CHOOSE q \in HexEdgePairs(n) :
                \A r \in HexEdgePairs(n) : q = r \/ QuadrupleBefore(q, r))

\* lines 479-507: five unique nodes, two tetrahedra
HexFiveNodes(n, v, g) ==
    LET tet1 == constructFourNodeElement(n, v, DefaultMinElemDim, g)[1]
        ff == tet1.nodes
        fifth == findPyramidTopNode(n, ff)
        changed == tet1.type = "QUAD"
    IN << IF changed
          THEN NewElement("TETRAHEDRON", <<ff[1], ff[2], ff[3], IdAt(n, fifth)>>, v)
          ELSE tet1,
          NewElement("TETRAHEDRON",
                     <<IF changed THEN ff[1] ELSE ff[2], ff[3], ff[4],
                       IdAt(n, fifth)>>, v) >>

reduceHex(n, nu, v, dim, g) ==
    IF nu = 7 THEN HexSevenNodes(n, v, g)
    ELSE IF nu = 6 THEN HexSixNodes(n, v, dim, g)
    ELSE IF nu = 5 THEN HexFiveNodes(n, v, g)
    ELSE IF nu = 4 THEN constructFourNodeElement(n, v, dim, g)
    ELSE IF nu = 3 /\ dim < 3 THEN constructTri(n, v)
    ELSE IF dim = 1 THEN constructLine(n, v)
    ELSE <<>>

reduceElement(type, n, nu, v, dim, g) ==
    IF type = "TRIANGLE" /\ dim = 1 THEN constructLine(n, v)
    ELSE IF type = "QUAD" \/ type = "TETRAHEDRON"
    THEN IF nu = 3 /\ dim < 3 THEN constructTri(n, v)
         ELSE IF dim = 1 THEN constructLine(n, v)
         ELSE <<>>
    ELSE IF type = "HEXAHEDRON" THEN reduceHex(n, nu, v, dim, g)
    ELSE IF type = "PYRAMID" THEN reducePyramid(n, nu, v, dim, g)
    ELSE IF type = "PRISM" THEN reducePrism(n, nu, v, dim, g, g.pcop[1])
    ELSE <<>>

----------------------------------------------------------------------------
(* MeshRevision::constructNewNodesArray, resetNodeIDs and the duplicate    *)
(* functions.                                                              *)

\* the loop of constructNewNodesArray copying every node
NewNodesFromKeepAll(ns, m, r, p) == [new |-> ns, ids |-> Identity(Len(ns))]

\* the loop from node p on; r.new are the nodes created, r.ids the
\* identifiers of the nodes of _mesh
RECURSIVE NewNodesFrom(_, _, _, _)
NewNodesFrom(ns, m, r, p) ==
    IF p > Len(ns) THEN r
    ELSE CHOOSE x \in {NewNodesFrom(ns, m, v, p + 1) :
                          v \in {IF r.ids[p] = m[p]
                                 THEN [new |-> Append(r.new, ns[p]),
                                       ids |-> [r.ids EXCEPT ![p] = Len(r.new) + 1]]
                                 ELSE [new |-> r.new,
                                       ids |-> [r.ids EXCEPT ![p] = r.ids[m[p]]]]}} :
             TRUE

constructNewNodesArray(ns, idv, m) ==
    NewNodesFrom(ns, m, [new |-> <<>>, ids |-> idv], 1)

\* the loop of resetNodeIDs stopping one node early
resetNodeIDsAllButLast(ns) == [i \in 1..Len(ns) |-> IF i < Len(ns) THEN i ELSE 1]

resetNodeIDs(ns) == Identity(Len(ns))

copyNodeVector(ns) == ns

copyElement(el, idv) ==
    IF el.type \in ElemTypes
    THEN NewElement(el.type, NodeIds(el, idv), el.value)
    ELSE NullElement

copyElementVector(els, idv) == [x \in DOMAIN els |-> copyElement(els[x], idv)]

\* what an operation hands back
NoResult == [kind |-> "none"]

NullMesh == [kind |-> "null"]

NewMesh(ns, els) == [kind |-> "mesh", nodes |-> ns, elems |-> els]

Crashed == [kind |-> "crash"]

\* an element built on a null pointer or on a pointer read from outside
\* new_nodes: its constructor reads the coordinates of that node
HasWildNode(el, nn) == \E x \in DOMAIN el.nodes : el.nodes[x] \notin 1..Len(nn)

----------------------------------------------------------------------------
(* Values of the variables an operation does not use.                      *)

NoCall ==
    /\ op = "none" /\ eps = 0 /\ min_elem_dim = 0
    /\ id_map = <<>> /\ k = 0 /\ todo = {}
    /\ new_nodes = <<>> /\ new_elements = <<>> /\ origin = <<>>
    /\ e = 0 /\ ret = NoResult /\ cleaned = 0

----------------------------------------------------------------------------
(* collapseNodeIndeces step by step: one action per pass of the outer loop *)
(* head and one per pass of the innermost loop.  The cells and the nodes   *)
(* of a cell are visited in any order.                                     *)

InitCollapse ==
    /\ nodes \in SeqsUpTo(0..MaxCoord, MaxNodes)
    /\ ids = Identity(Len(nodes))
    /\ elems = <<>>
    /\ cell \in 1..MaxCell
    /\ pc = "outer"
    /\ op = "collapseNodeIndeces"
    /\ eps \in 1..MaxEps
    /\ min_elem_dim = 0
    /\ id_map = Identity(Len(nodes))
    /\ k = 1
    /\ todo = {}
    /\ new_nodes = <<>> /\ new_elements = <<>> /\ origin = <<>>
    /\ e = 0 /\ ret = NoResult /\ cleaned = 0

\* lines 152-160: loop head, the skip test and the grid query
OuterStep ==
    /\ pc = "outer"
    /\ IF k > Len(nodes)
       THEN /\ pc' = "returned"
            /\ ret' = [kind |-> "map", map |-> id_map]
            /\ UNCHANGED <<k, todo>>
       ELSE IF ids[k] # k
       THEN /\ k' = k + 1
            /\ UNCHANGED <<pc, todo, ret>>
       ELSE /\ todo' = Candidates(nodes, cell, k, eps)
            /\ pc' = "inner"
            /\ UNCHANGED <<k, ret>>
    /\ UNCHANGED <<nodes, ids, elems, cell, op, eps, min_elem_dim, id_map,
                   new_nodes, new_elements, origin, e, cleaned>>

\* lines 165-180: one test node
InnerStep ==
    /\ pc = "inner"
    /\ \E t \in todo :
         /\ id_map' = Visit(nodes, ids, id_map, k, t, eps)
         /\ todo' = todo \ {t}
    /\ UNCHANGED <<nodes, ids, elems, cell, pc, op, eps, min_elem_dim, k,
                   new_nodes, new_elements, origin, e, ret, cleaned>>

\* all cells of node k are done
InnerDone ==
    /\ pc = "inner"
    /\ todo = {}
    /\ k' = k + 1
    /\ pc' = "outer"
    /\ UNCHANGED <<nodes, ids, elems, cell, op, eps, min_elem_dim, id_map, todo,
                   new_nodes, new_elements, origin, e, ret, cleaned>>

NextCollapse == OuterStep \/ InnerStep \/ InnerDone

SpecCollapse == InitCollapse /\ [][NextCollapse]_vars

----------------------------------------------------------------------------
(* The operations of MeshRevision on a mesh.                               *)

MaxElems == 2

\* the elements a mesh of nn nodes is made of
ElemCatalogue(nn) ==
    (IF nn >= 2
     THEN {[type |-> "LINE", nodes |-> <<1, 2>>, value |-> 1, flag |-> FALSE]}
          \cup {[type |-> "INVALID", nodes |-> <<1, 2>>, value |-> 5, flag |-> f] :
                    f \in BOOLEAN}
     ELSE {})
    \cup
    (IF nn >= 3
     THEN {[type |-> "TRIANGLE", nodes |-> <<1, 2, 3>>, value |-> 2, flag |-> FALSE],
           [type |-> "LINE", nodes |-> <<3, 2>>, value |-> 3, flag |-> FALSE]}
     ELSE {})
    \cup
    (IF nn >= 4
     THEN {[type |-> "QUAD", nodes |-> <<1, 2, 3, 4>>, value |-> 4, flag |-> f] :
                    f \in BOOLEAN}
          \cup {[type |-> "TETRAHEDRON", nodes |-> <<1, 2, 3, 4>>, value |-> 6,
                 flag |-> FALSE]}
     ELSE {})

Init ==
    /\ nodes \in SeqsUpTo(0..MaxCoord, MaxNodes)
    /\ ids = Identity(Len(nodes))
    /\ elems \in SeqsUpTo(ElemCatalogue(Len(nodes)), MaxElems)
    /\ cell \in 1..MaxCell
    /\ pc = "idle"
    /\ NoCall

\* what a constructor does with a node that is none: it reads its
\* coordinates, the process dies or goes on with what it has read
MayCrash(els) == \E x \in DOMAIN els : HasWildNode(els[x], new_nodes)

\* collapseNodes, line 48
CollapseNodesBegin ==
    /\ pc = "idle"
    /\ \E tol \in 1..MaxEps :
         LET r == constructNewNodesArray(nodes, ids,
                        collapseNodeIndeces(nodes, ids, cell, tol))
         IN /\ op' = "collapseNodes"
            /\ eps' = tol
            /\ new_nodes' = r.new
            /\ ids' = r.ids
    /\ pc' = "copy"
    /\ UNCHANGED <<nodes, elems, cell, min_elem_dim, id_map, k, todo,
                   new_elements, origin, e, ret, cleaned>>

\* collapseNodes, lines 49-51
CollapseNodesEnd ==
    /\ pc = "copy"
    /\ LET copies == copyElementVector(elems, ids)
       IN /\ new_elements' = copies
          /\ origin' = [x \in DOMAIN elems |-> x]
          /\ \E crash \in BOOLEAN :
               /\ crash => (MayCrash(copies) \/ NullElement \in Range(copies))
               /\ IF crash
                  THEN ret' = Crashed /\ pc' = "crashed" /\ UNCHANGED ids
                  ELSE /\ ret' = NewMesh(new_nodes, copies)
                       /\ pc' = "done"
                       /\ ids' = resetNodeIDs(nodes)
    /\ UNCHANGED <<nodes, elems, cell, op, eps, min_elem_dim, id_map, k, todo,
                   new_nodes, e, cleaned>>

\* getNCollapsableNodes, lines 54-63
GetNCollapsableNodes ==
    /\ pc = "idle"
    /\ \E tol \in 1..MaxEps :
         LET m == collapseNodeIndeces(nodes, ids, cell, tol)
         IN /\ op' = "getNCollapsableNodes"
            /\ eps' = tol
            /\ ret' = [kind |-> "count",
                       n |-> Cardinality({i \in DOMAIN m : i # m[i]})]
    /\ pc' = "done"
    /\ UNCHANGED <<nodes, ids, elems, cell, min_elem_dim, id_map, k, todo,
                   new_nodes, new_elements, origin, e, cleaned>>

\* simplifyMesh, lines 67-73
SimplifyBegin ==
    /\ pc = "idle"
    /\ \E tol \in 1..MaxEps, dim \in 1..3 :
         /\ op' = "simplifyMesh"
         /\ eps' = tol
         /\ min_elem_dim' = dim
         /\ IF Len(elems) = 0
            THEN /\ ret' = NullMesh
                 /\ pc' = "done"
                 /\ UNCHANGED <<new_nodes, ids, e>>
            ELSE LET r == constructNewNodesArray(nodes, ids,
                                collapseNodeIndeces(nodes, ids, cell, tol))
                 IN /\ new_nodes' = r.new
                    /\ ids' = r.ids
                    /\ e' = 1
                    /\ pc' = "elems"
                    /\ UNCHANGED ret
    /\ UNCHANGED <<nodes, elems, cell, id_map, k, todo, new_elements, origin,
                   cleaned>>

\* the loop body with the dimension test of line 77 made strict
SimplifyElementStrictFloor(el, idv, dim, g) ==
    LET n == NodeIds(el, idv)
        nu == getNUniqueNodes(n)
    IN IF nu = Len(el.nodes) /\ getDimension(el.type) > dim
       THEN IF el.flag
            THEN [fail |-> subdivideElement(el.type, n, el.value) = <<>>,
                  new |-> subdivideElement(el.type, n, el.value)]
            ELSE [fail |-> FALSE, new |-> <<copyElement(el, idv)>>]
       ELSE IF nu < Len(el.nodes) /\ nu > 1
       THEN [fail |-> FALSE, new |-> reduceElement(el.type, n, nu, el.value, dim, g)]
       ELSE [fail |-> FALSE, new |-> <<>>]

\* the elements one pass of the loop of simplifyMesh appends (lines 76-96);
\* fail says that subdivideElement returned false
SimplifyElement(el, idv, dim, g) ==
    LET n == NodeIds(el, idv)
        nu == getNUniqueNodes(n)
    IN IF nu = Len(el.nodes) /\ getDimension(el.type) >= dim
       THEN IF el.flag
            THEN [fail |-> subdivideElement(el.type, n, el.value) = <<>>,
                  new |-> subdivideElement(el.type, n, el.value)]
            ELSE [fail |-> FALSE, new |-> <<copyElement(el, idv)>>]
       ELSE IF nu < Len(el.nodes) /\ nu > 1
       THEN [fail |-> FALSE, new |-> reduceElement(el.type, n, nu, el.value, dim, g)]
       ELSE [fail |-> FALSE, new |-> <<>>]

\* the elements one pass of the loop of subdivideMesh appends (lines 119-130)
SubdivideMeshElement(el, idv) ==
    LET n == NodeIds(el, idv)
    IN IF el.flag
       THEN [fail |-> subdivideElement(el.type, n, el.value) = <<>>,
             new |-> subdivideElement(el.type, n, el.value)]
       ELSE [fail |-> FALSE, new |-> <<copyElement(el, idv)>>]

\* one pass of the element loop whose failure path returns without cleanUp
ElementPassNoCleanUp(r, reset) ==
    IF r.fail
    THEN /\ ids' = (IF reset THEN resetNodeIDs(nodes) ELSE ids)
         /\ ret' = NullMesh
         /\ pc' = "done"
         /\ UNCHANGED <<new_elements, origin, e, cleaned>>
    ELSE /\ new_elements' = new_elements \o r.new
         /\ origin' = origin \o [x \in DOMAIN r.new |-> e]
         /\ \E crash \in BOOLEAN :
              /\ crash => MayCrash(r.new)
              /\ IF crash
                 THEN ret' = Crashed /\ pc' = "crashed" /\ UNCHANGED e
                 ELSE e' = e + 1 /\ UNCHANGED <<ret, pc>>
         /\ UNCHANGED <<ids, cleaned>>

\* one pass of the element loop with outcome r; reset says whether the
\* failure path renumbers the nodes of _mesh
ElementPass(r, reset) ==
    IF r.fail
    THEN /\ ids' = (IF reset THEN resetNodeIDs(nodes) ELSE ids)
         /\ cleaned' = cleaned + 1
         /\ ret' = NullMesh
         /\ pc' = "done"
         /\ UNCHANGED <<new_elements, origin, e>>
    ELSE /\ new_elements' = new_elements \o r.new
         /\ origin' = origin \o [x \in DOMAIN r.new |-> e]
         /\ \E crash \in BOOLEAN :
              /\ crash => MayCrash(r.new)
              /\ IF crash
                 THEN ret' = Crashed /\ pc' = "crashed" /\ UNCHANGED e
                 ELSE e' = e + 1 /\ UNCHANGED <<ret, pc>>
         /\ UNCHANGED <<ids, cleaned>>

\* simplifyMesh, lines 74-98: one element
SimplifyElem ==
    /\ pc = "elems"
    /\ op = "simplifyMesh"
    /\ e <= Len(elems)
    /\ \E g \in GeomChoices(elems[e].type, getNUniqueNodes(NodeIds(elems[e], ids))) :
         ElementPass(SimplifyElement(elems[e], ids, min_elem_dim, g), TRUE)
    /\ UNCHANGED <<nodes, elems, cell, op, eps, min_elem_dim, id_map, k, todo,
                   new_nodes>>

\* the end of an operation without the test of new_elements.empty()
ReturnMeshUnguarded ==
    /\ ret' = NewMesh(new_nodes, new_elements)
    /\ pc' = "done"
    /\ UNCHANGED cleaned

\* the end of an operation: the mesh is built from what was created
ReturnMesh ==
    IF new_elements # <<>>
    THEN \E crash \in BOOLEAN :
           /\ crash => NullElement \in Range(new_elements)
           /\ IF crash
              THEN ret' = Crashed /\ pc' = "crashed"
              ELSE ret' = NewMesh(new_nodes, new_elements) /\ pc' = "done"
           /\ UNCHANGED cleaned
    ELSE /\ cleaned' = cleaned + 1
         /\ ret' = NullMesh
         /\ pc' = "done"

\* simplifyMesh, lines 100-105
SimplifyEnd ==
    /\ pc = "elems"
    /\ op = "simplifyMesh"
    /\ e > Len(elems)
    /\ ids' = resetNodeIDs(nodes)
    /\ ReturnMesh
    /\ UNCHANGED <<nodes, elems, cell, op, eps, min_elem_dim, id_map, k, todo,
                   new_nodes, new_elements, origin, e>>

\* subdivideMesh, lines 110-116
SubdivideBegin ==
    /\ pc = "idle"
    /\ op' = "subdivideMesh"
    /\ IF Len(elems) = 0
       THEN /\ ret' = NullMesh
            /\ pc' = "done"
            /\ UNCHANGED <<new_nodes, e>>
       ELSE /\ new_nodes' = copyNodeVector(nodes)
            /\ e' = 1
            /\ pc' = "elems"
            /\ UNCHANGED ret
    /\ UNCHANGED <<nodes, ids, elems, cell, eps, min_elem_dim, id_map, k, todo,
                   new_elements, origin, cleaned>>

\* subdivideMesh, lines 117-131: one element
SubdivideElem ==
    /\ pc = "elems"
    /\ op = "subdivideMesh"
    /\ e <= Len(elems)
    /\ ElementPass(SubdivideMeshElement(elems[e], ids), FALSE)
    /\ UNCHANGED <<nodes, elems, cell, op, eps, min_elem_dim, id_map, k, todo,
                   new_nodes>>

\* subdivideMesh, lines 133-137
SubdivideEnd ==
    /\ pc = "elems"
    /\ op = "subdivideMesh"
    /\ e > Len(elems)
    /\ ReturnMesh
    /\ UNCHANGED <<nodes, ids, elems, cell, op, eps, min_elem_dim, id_map, k,
                   todo, new_nodes, new_elements, origin, e>>

\* the caller has the result; the MeshRevision object can be used again
Return ==
    /\ pc = "done"
    /\ pc' = "idle"
    /\ op' = "none" /\ eps' = 0 /\ min_elem_dim' = 0
    /\ id_map' = <<>> /\ k' = 0 /\ todo' = {}
    /\ new_nodes' = <<>> /\ new_elements' = <<>> /\ origin' = <<>>
    /\ e' = 0 /\ ret' = NoResult /\ cleaned' = 0
    /\ UNCHANGED <<nodes, ids, elems, cell>>

Next ==
    \/ CollapseNodesBegin
    \/ CollapseNodesEnd
    \/ GetNCollapsableNodes
    \/ SimplifyBegin
    \/ SimplifyElem
    \/ SimplifyEnd
    \/ SubdivideBegin
    \/ SubdivideElem
    \/ SubdivideEnd
    \/ Return

Spec == Init /\ [][Next]_vars

----------------------------------------------------------------------------
(* One element with collapsed nodes.  The initial states are the states of *)
(* simplifyMesh(1, d) after line 71 and of subdivideMesh after line 114 on *)
(* a mesh of one element whose nodes are its own nodes in local order; the *)
(* nodes with the same coordinate are the ones collapsed.  The coordinates *)
(* number the groups of coincident nodes in the order of their first       *)
(* members, so with eps = 1 constructNewNodesArray creates node g at       *)
(* coordinate g and gives every node of _mesh its coordinate as            *)
(* identifier (InitReduceIsCollapse).                                      *)

MaterialValues == {0, 7}

MaxOf(s) == IF Len(s) = 0 THEN 0 ELSE Max(Range(s))

\* the sequences of length nn that number the groups of a partition in the
\* order of their first members
RECURSIVE Groupings(_)
Groupings(nn) ==
    IF nn = 0 THEN {<<>>}
    ELSE UNION {{Append(s, x) : x \in 1..(MaxOf(s) + 1)} : s \in Groupings(nn - 1)}

AllTypes == ElemTypes \cup {"INVALID"}

InitReduce ==
    /\ \E type \in AllTypes, v \in MaterialValues, f \in BOOLEAN :
         /\ f => CanBeNonCoplanar(type)
         /\ elems = <<[type |-> type, nodes |-> Identity(getNNodes(type)),
                       value |-> v, flag |-> f]>>
    /\ cell = 1
    /\ id_map = <<>> /\ k = 0 /\ todo = {}
    /\ new_elements = <<>> /\ origin = <<>>
    /\ e = 1 /\ ret = NoResult /\ cleaned = 0
    /\ pc = "elems"
    /\ \/ /\ op = "simplifyMesh"
          /\ eps = 1
          /\ min_elem_dim \in 1..3
          /\ nodes \in Groupings(Len(elems[1].nodes))
          /\ new_nodes = Identity(MaxOf(nodes))
          /\ ids = nodes
       \/ /\ op = "subdivideMesh"
          /\ eps = 0
          /\ min_elem_dim = 0
          /\ nodes = Identity(Len(elems[1].nodes))
          /\ ids = Identity(Len(nodes))
          /\ new_nodes = copyNodeVector(nodes)

\* the initial identifiers and nodes are those lines 69-70 compute
InitReduceIsCollapse(ns) ==
    constructNewNodesArray(ns, Identity(Len(ns)),
                           collapseNodeIndeces(ns, Identity(Len(ns)), 1, 1))
        = [new |-> Identity(MaxOf(ns)), ids |-> ns]

NextReduce == SimplifyElem \/ SimplifyEnd \/ SubdivideElem \/ SubdivideEnd

SpecReduce == InitReduce /\ [][NextReduce]_vars

----------------------------------------------------------------------------
(* Claims about the collapse map.                                          *)

\* C1: the map returned by collapseNodeIndeces is idempotent: for every
\* node p, map[map[p]] = map[p]; no chain p -> m -> n with m # n exists.
C1_MapIdempotent ==
    pc = "returned" => \A p \in DOMAIN ret.map : ret.map[ret.map[p]] = ret.map[p]

\* C2: any two distinct nodes that both remain representatives lie at a
\* distance of at least eps from each other.
C2_NoOverCollapse ==
    pc = "returned" =>
        \A a, b \in DOMAIN ret.map :
            (a # b /\ ret.map[a] = a /\ ret.map[b] = b)
                => sqrDist(nodes[a], nodes[b]) >= eps * eps

----------------------------------------------------------------------------
(* Claims about the mesh operations.                                       *)

\* the identifiers simplifyMesh and collapseNodes work with between
\* constructNewNodesArray and resetNodeIDs
CollapsedIds ==
    constructNewNodesArray(nodes, Identity(Len(nodes)),
        collapseNodeIndeces(nodes, Identity(Len(nodes)), cell, eps)).ids

\* the elements created from element x of _mesh, in the order of creation
Derived(x) ==
    LET idx == {y \in DOMAIN origin : origin[y] = x}
    IN [i \in 1..Cardinality(idx) |-> new_elements[Min(idx) + i - 1]]

\* simplifyMesh has just handled its only element
Reduced == pc = "elems" /\ op = "simplifyMesh" /\ Len(elems) = 1 /\ e = 2

\* C3: when collapseNodes, simplifyMesh or subdivideMesh has returned, with a
\* mesh or without one, and between calls, the identifier of every node of
\* _mesh is its storage position.
C3_IdsArePositions ==
    (pc = "idle" \/ (pc = "done" /\ op \in {"collapseNodes", "simplifyMesh",
                                           "subdivideMesh"}))
        => ids = Identity(Len(nodes))

\* simplifyMesh has returned nothing because subdivideElement failed, after
\* constructNewNodesArray had given a collapsed node another identifier
C3_Witness ==
    /\ pc = "done" /\ op = "simplifyMesh" /\ ret = NullMesh
    /\ e \in DOMAIN elems /\ elems[e].flag
    /\ Len(new_nodes) < Len(nodes)
    /\ CollapsedIds # Identity(Len(nodes))
    /\ ids = Identity(Len(nodes))

\* C4: if the unique-node count of some element is at most 1 or larger
\* than its node count, simplifyMesh returns no mesh and has released what
\* it had created.
C4_AbortOnContradiction ==
    (/\ pc = "done" /\ op = "simplifyMesh"
     /\ \E x \in DOMAIN elems :
          LET nu == getNUniqueNodes(NodeIds(elems[x], CollapsedIds))
          IN nu <= 1 \/ nu > Len(elems[x].nodes))
        => (ret = NullMesh /\ cleaned = 1)

C6_MaterialValueConserved ==
    (pc = "done" /\ op = "simplifyMesh" /\ ret.kind = "mesh") =>
        \A y \in DOMAIN ret.elems :
            ret.elems[y] # NullElement =>
                ret.elems[y].value = elems[origin[y]].value

\* the mesh returned for a hexahedron with six unique nodes that was split
\* into two prisms and then into four tetrahedra, value 7
C6_Witness ==
    /\ pc = "done" /\ op = "simplifyMesh" /\ ret.kind = "mesh"
    /\ elems[1].type = "HEXAHEDRON" /\ elems[1].value = 7
    /\ Len(ret.elems) = 4
    /\ \A y \in 1..4 : ret.elems[y].type = "TETRAHEDRON" /\ ret.elems[y].value = 7

\* C7: a hexahedron with six unique nodes and a face on which both edges of
\* an opposite pair are collapsed yields exactly one prism, on the six
\* unique nodes.
C7_FacePrism ==
    LET n == NodeIds(elems[1], ids)
    IN (/\ Reduced
        /\ elems[1].type = "HEXAHEDRON"
        /\ getNUniqueNodes(n) = 6
        /\ HexCollapsedFaces(n) # {})
       => /\ Len(new_elements) = 1
          /\ new_elements[1].type = "PRISM"
          /\ Range(new_elements[1].nodes) = Range(n)
          /\ Cardinality(Range(n)) = 6

C9_ThreeNodesTriangle ==
    LET n == NodeIds(elems[1], ids)
    IN (/\ Reduced
        /\ elems[1].type \in {"QUAD", "TETRAHEDRON", "PYRAMID", "PRISM", "HEXAHEDRON"}
        /\ getNUniqueNodes(n) = 3
        /\ min_elem_dim < 3)
       => /\ Len(new_elements) = 1
          /\ new_elements[1].type = "TRIANGLE"
          /\ Range(new_elements[1].nodes) = Range(n)
          /\ Cardinality(Range(n)) = 3

\* the corners of the hexahedron that are neither i, j nor diametral to one
\* of them
HexCuttingQuad(i, j) ==
    (0..7) \ {i, j, lutHexDiametralNode(i), lutHexDiametralNode(j)}

\* C10: a hexahedron with seven unique nodes whose coincident corners i, j
\* are joined by an edge yields a pyramid and a prism, in this order: the
\* base of the pyramid is the cutting quad of (i, j), taken round (opposite
\* base corners are diametral corners of the hexahedron), its apex is the
\* merged node; the prism has six distinct nodes, those of the cutting quad
\* and the corners diametral to i and j.
C10_HexEdgePyramidPrism ==
    LET n == NodeIds(elems[1], ids)
        p == FirstPair(EqualPairs(n))
        quad == {IdAt(n, c) : c \in HexCuttingQuad(p[1], p[2])}
        pyr == new_elements[1]
        pri == new_elements[2]
    IN (/\ Reduced
        /\ elems[1].type = "HEXAHEDRON"
        /\ getNUniqueNodes(n) = 7
        /\ p \in HexEdgeNodes)
       => /\ Len(new_elements) = 2
          /\ pyr.type = "PYRAMID" /\ pri.type = "PRISM"
          /\ {pyr.nodes[x] : x \in 1..4} = quad
          /\ Cardinality(quad) = 4
          /\ \E b \in [1..4 -> HexCuttingQuad(p[1], p[2])] :
                /\ \A x \in 1..4 : pyr.nodes[x] = IdAt(n, b[x])
                /\ lutHexDiametralNode(b[1]) = b[3]
                /\ lutHexDiametralNode(b[2]) = b[4]
          /\ pyr.nodes[5] = IdAt(n, p[1])
          /\ Range(pri.nodes) =
                quad \cup {IdAt(n, lutHexDiametralNode(p[1])),
                           IdAt(n, lutHexDiametralNode(p[2]))}
          /\ Cardinality(Range(pri.nodes)) = 6

\* the pyramid and the prism made when corner 0 and corner 4 above it coincide
C10_Witness ==
    /\ Reduced
    /\ elems[1].type = "HEXAHEDRON"
    /\ EqualPairs(NodeIds(elems[1], ids)) = {<<0, 4>>}
    /\ Len(new_elements) = 2
    /\ new_elements[1].type = "PYRAMID"
    /\ new_elements[2].type = "PRISM"

\* C11: a hexahedron with five unique nodes yields exactly two tetrahedra,
\* and both hold the apex, the unique node that is none of the four base
\* nodes (the first four unique nodes), whatever isCoplanar says of the base.
C11_HexFiveTwoTetsWithApex ==
    LET n == NodeIds(elems[1], ids)
        apex == Range(n) \ Range(FirstFour(n))
    IN (/\ Reduced
        /\ elems[1].type = "HEXAHEDRON"
        /\ getNUniqueNodes(n) = 5)
       => /\ Len(new_elements) = 2
          /\ \A y \in 1..2 :
                /\ new_elements[y].type = "TETRAHEDRON"
                /\ apex \subseteq Range(new_elements[y].nodes)

\* C12: when an element of _mesh has a type that is none of the seven,
\* collapseNodes, simplifyMesh and subdivideMesh return no mesh; a returned
\* mesh never holds the null element.
C12_UnknownTypeNoMesh ==
    (pc = "done" /\ op \in {"collapseNodes", "simplifyMesh", "subdivideMesh"}) =>
        /\ (\E x \in DOMAIN elems : elems[x].type \notin ElemTypes) => ret = NullMesh
        /\ ret.kind = "mesh" => NullElement \notin Range(ret.elems)

\* C13: no element of a mesh returned by simplifyMesh has a dimension below
\* min_elem_dim.
C13_DimensionFloor ==
    (pc = "done" /\ op = "simplifyMesh" /\ ret.kind = "mesh") =>
        \A y \in DOMAIN ret.elems :
            ret.elems[y] # NullElement =>
                getDimension(ret.elems[y].type) >= min_elem_dim

C13_Witness ==
    /\ pc = "done" /\ op = "simplifyMesh" /\ ret.kind = "mesh"
    /\ min_elem_dim = 3
    /\ elems[1].type = "PYRAMID"
    /\ Len(new_nodes) = 4
    /\ ret.elems[1].type = "TETRAHEDRON"

\* C14: simplifyMesh and subdivideMesh never return a mesh without elements;
\* for a source mesh without elements, and when the loop produced no element,
\* they return no mesh.
C14_NeverEmptyMesh ==
    (pc = "done" /\ op \in {"simplifyMesh", "subdivideMesh"}) =>
        /\ ret.kind = "mesh" => Len(ret.elems) > 0
        /\ (Len(elems) = 0 \/ new_elements = <<>>) => ret = NullMesh

\* the loop over a mesh of two elements appended nothing
C14_Witness ==
    /\ pc = "done" /\ op = "simplifyMesh"
    /\ Len(elems) = 2
    /\ e = 3
    /\ new_elements = <<>>
    /\ ret = NullMesh

\* C15: when simplifyMesh or subdivideMesh fails after new_nodes was built
\* (the loop was left early or it appended nothing), no mesh is returned and
\* cleanUp has run exactly once over new_nodes and new_elements, which hold
\* every node and element the call created and kept.
C15_FailureReleasesOnce ==
    (pc = "done" /\ op \in {"simplifyMesh", "subdivideMesh"} /\ Len(elems) > 0) =>
        /\ (e <= Len(elems) \/ new_elements = <<>>) => ret = NullMesh
        /\ ret = NullMesh => cleaned = 1

\* the second element aborts the call after the first one was appended
C15_Witness ==
    /\ pc = "done" /\ op \in {"simplifyMesh", "subdivideMesh"}
    /\ e = 2 /\ Len(elems) = 2
    /\ new_elements # <<>>
    /\ ret = NullMesh
    /\ cleaned = 1

\* C16: collapseNodes returns a mesh with one element for every element of
\* _mesh, in the same order, each of the type and with the value of its source
\* element, also when the collapse made the element degenerate.
C16_CollapseKeepsElements ==
    (op = "collapseNodes" /\ pc \in {"done", "crashed"}) =>
        /\ ret.kind = "mesh"
        /\ Len(ret.elems) = Len(elems)
        /\ \A x \in DOMAIN elems :
              /\ ret.elems[x].type = elems[x].type
              /\ ret.elems[x].value = elems[x].value

\* the single element of the mesh was subdivided by the pass just made
Subdivided ==
    /\ pc = "elems" /\ Len(elems) = 1 /\ e = 2
    /\ elems[1].flag
    /\ getNUniqueNodes(NodeIds(elems[1], ids)) = Len(elems[1].nodes)
    /\ op = "subdivideMesh" \/ getDimension(elems[1].type) >= min_elem_dim

\* C17: subdivideElement appends 2 triangles for a quad, 2 tetrahedra holding
\* local node 4 for a pyramid, 3 tetrahedra for a prism and 6 tetrahedra for
\* a hexahedron; every child has pairwise distinct nodes of the source
\* element and its value, and the children together use all its nodes.
C17_SubdivideElement ==
    LET el == elems[1]
        n == NodeIds(el, ids)
    IN Subdivided =>
         /\ Len(new_elements) = (CASE el.type = "QUAD" -> 2
                                   [] el.type = "PYRAMID" -> 2
                                   [] el.type = "PRISM" -> 3
                                   [] el.type = "HEXAHEDRON" -> 6
                                   [] OTHER -> 0)
         /\ \A y \in DOMAIN new_elements :
               /\ new_elements[y].type =
                     (IF el.type = "QUAD" THEN "TRIANGLE" ELSE "TETRAHEDRON")
               /\ Len(new_elements[y].nodes) = getNNodes(new_elements[y].type)
               /\ Cardinality(Range(new_elements[y].nodes)) =
                     Len(new_elements[y].nodes)
               /\ Range(new_elements[y].nodes) \subseteq Range(n)
               /\ new_elements[y].value = el.value
               /\ el.type = "PYRAMID" => IdAt(n, 4) \in Range(new_elements[y].nodes)
         /\ UNION {Range(new_elements[y].nodes) : y \in DOMAIN new_elements}
               = Range(n)

C17_Witness ==
    /\ Subdivided
    /\ elems[1].type = "HEXAHEDRON"
    /\ op = "subdivideMesh"
    /\ Len(new_elements) = 6

\* C18: every element of a mesh returned by subdivideMesh is the copy of a
\* source element that validate() did not flag as non-coplanar, or a triangle
\* or tetrahedron made by subdividing a flagged one.
C18_SubdividedMeshIsPlanar ==
    (pc = "done" /\ op = "subdivideMesh" /\ ret.kind = "mesh") =>
        \A y \in DOMAIN ret.elems :
            LET src == elems[origin[y]]
            IN IF src.flag
               THEN ret.elems[y].type \in {"TRIANGLE", "TETRAHEDRON"}
               ELSE ret.elems[y] = NewElement(src.type, src.nodes, src.value)

\* the value getNCollapsableNodes returns for tolerance tol (lines 54-63)
getNCollapsableNodes(ns, idv, g, tol) ==
    LET m == collapseNodeIndeces(ns, idv, g, tol)
    IN Cardinality({i \in DOMAIN m : i # m[i]})

\* C19: the number getNCollapsableNodes(eps) returns is at least the number
\* it returns on the same nodes for every smaller tolerance.
C19_CollapsableMonotone ==
    (pc = "done" /\ op = "getNCollapsableNodes") =>
        /\ ret.n = getNCollapsableNodes(nodes, ids, cell, eps)
        /\ \A eps1 \in 1..eps :
              getNCollapsableNodes(nodes, ids, cell, eps1) <= ret.n

\* the number of nodes collapseNodes(tol) gives a mesh with the nodes ns,
\* numbered by position, on a grid of cell length g
NNodesAfterCollapse(ns, g, tol) ==
    Len(constructNewNodesArray(ns, Identity(Len(ns)),
            collapseNodeIndeces(ns, Identity(Len(ns)), g, tol)).new)

\* C20: collapseNodes(eps) applied to the mesh that collapseNodes(eps)
\* returned yields a mesh with as many nodes: the second pass collapses
\* nothing.
C20_CollapseIdempotent ==
    (pc = "done" /\ op = "collapseNodes" /\ ret.kind = "mesh") =>
        NNodesAfterCollapse(ret.nodes, cell, eps) = Len(ret.nodes)

\* C21: every assignment id_map[t] := k of collapseNodeIndeces is made while
\* node k is its own representative (id_map[k] = k) and k < t; a node whose
\* entry points to another node is never the source of an assignment.
C21_OnlySurvivorsCollapse ==
    [][\A t \in DOMAIN id_map :
          (t \in DOMAIN id_map' /\ id_map'[t] # id_map[t]) =>
              /\ id_map'[t] = k
              /\ id_map[k] = k
              /\ k < t]_vars

\* C22: after constructNewNodesArray every node of _mesh carries an
\* identifier that is a position of new_nodes and holds the copy of the
\* node's representative; every node of every element created is then a
\* position of new_nodes.
C22_IdsIndexNewNodes ==
    LET m == collapseNodeIndeces(nodes, Identity(Len(nodes)), cell, eps)
    IN /\ ((op = "collapseNodes" /\ pc = "copy")
             \/ (op = "simplifyMesh" /\ pc = "elems")) =>
               \A p \in DOMAIN nodes :
                   /\ ids[p] \in DOMAIN new_nodes
                   /\ new_nodes[ids[p]] = nodes[m[p]]
       /\ (op \in {"collapseNodes", "simplifyMesh", "subdivideMesh"}) =>
               \A y \in DOMAIN new_elements :
                   ~HasWildNode(new_elements[y], new_nodes)

\* the node that completes the triangular face of the prism nodes a and b
PrismFaceThird(a, b) ==
    CHOOSE c \in 0..5 : c \notin {a, b} /\ c \div 3 = a \div 3

\* C23: for the coincident pair of a prism with five unique nodes, taken in
\* both orders, lutPrismThirdNode returns the third node of the triangular
\* face when both nodes lie on one triangular face, and the sentinel when
\* they do not.
C23_PrismThirdNode ==
    LET n == NodeIds(elems[1], ids)
        p == FirstPair(EqualPairs(n))
    IN (/\ Reduced
        /\ elems[1].type = "PRISM"
        /\ getNUniqueNodes(n) = 5)
       => \A q \in {<<p[1], p[2]>>, <<p[2], p[1]>>} :
             lutPrismThirdNode(q[1], q[2]) =
                 (IF q[1] \div 3 = q[2] \div 3
                  THEN PrismFaceThird(q[1], q[2])
                  ELSE UnsignedMax)

\* C24: the two tetrahedra reducePrism appends for a prism with five unique
\* nodes whose coincident pair is one of the nine edges have four pairwise
\* distinct nodes each and together use all five unique nodes.
C24_PrismTetsAreProper ==
    LET n == NodeIds(elems[1], ids)
    IN (/\ Reduced
        /\ elems[1].type = "PRISM"
        /\ getNUniqueNodes(n) = 5
        /\ FirstPair(EqualPairs(n)) \in PrismEdgeNodes)
       => /\ \A y \in DOMAIN new_elements :
                new_elements[y].type = "TETRAHEDRON" =>
                    Cardinality(Range(new_elements[y].nodes)) = 4
          /\ UNION {Range(new_elements[y].nodes) : y \in DOMAIN new_elements}
                = Range(n)

\* C25: a hexahedron with seven unique nodes whose coincident corners are
\* not joined by an edge (a face diagonal or a space diagonal) yields no
\* element: lutHexCuttingQuadNodes has no row for the pair and nothing is
\* built from an array it did not fill.
C25_NoElementFromUnsetQuad ==
    LET n == NodeIds(elems[1], ids)
    IN (/\ op = "simplifyMesh" /\ Len(elems) = 1
        /\ \/ pc = "elems" /\ e = 2
           \/ pc = "crashed"
        /\ elems[1].type = "HEXAHEDRON"
        /\ getNUniqueNodes(n) = 7
        /\ FirstPair(EqualPairs(n)) \notin HexEdgeNodes)
       => new_elements = <<>>

\* the nodes a and b of the new mesh are the ends of an edge of the
\* hexahedron with the node identifiers n
HexJoined(n, a, b) ==
    \E ca, cb \in 0..7 :
        /\ IdAt(n, ca) = a
        /\ IdAt(n, cb) = b
        /\ HexIsEdge(ca, cb)

\* C26: in the prism made from a hexahedron with seven unique nodes whose
\* coincident corners are joined by an edge, the third node of each triangle
\* (positions 2 and 5) is joined by an edge of the hexahedron to the two
\* other nodes of its triangle, and the nodes at positions k and k+3 are
\* joined by an edge of the hexahedron.
C26_HexSevenPrismFollowsEdges ==
    LET n == NodeIds(elems[1], ids)
        pri == new_elements[2].nodes
    IN (/\ Reduced
        /\ elems[1].type = "HEXAHEDRON"
        /\ getNUniqueNodes(n) = 7
        /\ FirstPair(EqualPairs(n)) \in HexEdgeNodes)
       => /\ HexJoined(n, pri[3], pri[1]) /\ HexJoined(n, pri[3], pri[2])
          /\ HexJoined(n, pri[6], pri[4]) /\ HexJoined(n, pri[6], pri[5])
          /\ \A x \in 1..3 : HexJoined(n, pri[x], pri[x + 3])

\* lines 453-472: the node identifiers of the two prisms reduceHex cuts a
\* hexahedron with six unique nodes into, for the quadruple q of its loops
HexSplitPrisms(n, g, q) ==
    LET back == lutHexBackNodes(q[1][1], q[1][2], q[2][1], q[2][2])
        cut == lutHexCuttingQuadNodes(back[1], back[2], g)
    IN << <<IdAt(n, back[1]), IdAt(n, cut[1]), IdAt(n, cut[4]),
            IdAt(n, back[2]), IdAt(n, cut[2]), IdAt(n, cut[3])>>,
          <<IdAt(n, lutHexDiametralNode(back[1])), IdAt(n, cut[1]),
            IdAt(n, cut[4]),
            IdAt(n, lutHexDiametralNode(back[2])), IdAt(n, cut[2]),
            IdAt(n, cut[3])>> >>

\* the quadruple (i, j, k, l) at which the loops of lines 437-444 stop
HexFirstEdgePairs(n) ==
    CHOOSE q \in HexEdgePairs(n) :
        \A r \in HexEdgePairs(n) : q = r \/ QuadrupleBefore(q, r)

\* C27: a hexahedron with six unique nodes whose coincident pairs are two
\* edges that are not opposite edges of one face is cut into two prisms,
\* each with exactly one coincident pair, which is an edge of the prism, and
\* exactly four tetrahedra are appended.
C27_HexSixFourTets ==
    LET n == NodeIds(elems[1], ids)
    IN (/\ Reduced
        /\ elems[1].type = "HEXAHEDRON"
        /\ getNUniqueNodes(n) = 6
        /\ HexCollapsedFaces(n) = {}
        /\ HexEdgePairs(n) # {})
       => /\ Len(new_elements) = 4
          /\ \A y \in DOMAIN new_elements : new_elements[y].type = "TETRAHEDRON"
          /\ \A u \in UninitArrays :
                \A x \in 1..2 :
                    LET pris == HexSplitPrisms(n, u, HexFirstEdgePairs(n))[x]
                    IN /\ getNUniqueNodes(pris) = 5
                       /\ Cardinality(EqualPairs(pris)) = 1
                       /\ EqualPairs(pris) \subseteq PrismEdgeNodes

\* C28: for an element with exactly four unique nodes the four-node
\* constructor gives, on the unique nodes in the order of their first
\* occurrence, a quadrilateral on a permutation of them (coplanar and
\* min_elem_dim < 3), no element (coplanar and min_elem_dim = 3) or a
\* tetrahedron on them (not coplanar); nothing else.
C28_FourNodeConstructor ==
    LET n == NodeIds(elems[1], ids)
        four == FirstOccurrences(n, 0)
    IN (/\ Reduced
        /\ elems[1].type \in {"HEXAHEDRON", "PYRAMID", "PRISM"}
        /\ getNUniqueNodes(n) = 4)
       => /\ Len(four) = 4 /\ Cardinality(Range(four)) = 4
          /\ \/ /\ min_elem_dim < 3
                /\ Len(new_elements) = 1
                /\ new_elements[1].type = "QUAD"
                /\ Len(new_elements[1].nodes) = 4
                /\ Range(new_elements[1].nodes) = Range(four)
                /\ new_elements[1].value = elems[1].value
             \/ /\ min_elem_dim = 3
                /\ new_elements = <<>>
             \/ /\ Len(new_elements) = 1
                /\ new_elements[1] = NewElement("TETRAHEDRON", four, elems[1].value)
          /\ \A g \in GeomChoices(elems[1].type, 4) :
                LET r == constructFourNodeElement(n, elems[1].value, min_elem_dim, g)
                IN IF ~g.cop
                   THEN r = <<NewElement("TETRAHEDRON", four, elems[1].value)>>
                   ELSE IF min_elem_dim = 3
                   THEN r = <<>>
                   ELSE /\ Len(r) = 1
                        /\ r[1].type = "QUAD"
                        /\ Range(r[1].nodes) = Range(four)
          /\ \E g \in GeomChoices(elems[1].type, 4) :
                new_elements =
                    constructFourNodeElement(n, elems[1].value, min_elem_dim, g)

\* a coplanar quadrilateral whose nodes were swapped twice
C28_Witness ==
    LET n == NodeIds(elems[1], ids)
        four == FirstOccurrences(n, 0)
    IN /\ Reduced
       /\ elems[1].type = "PRISM"
       /\ getNUniqueNodes(n) = 4
       /\ min_elem_dim = 2
       /\ Len(new_elements) = 1
       /\ new_elements[1].type = "QUAD"
       /\ new_elements[1].nodes = <<four[1], four[3], four[4], four[2]>>

\* C29: whatever the order in which the nodes of the candidate cells are
\* visited, collapseNodeIndeces returns the map it returns when they are
\* visited in ascending order: the map depends on the nodes, their order and
\* eps only.
C29_MapIndependentOfTraversal ==
    pc = "returned" =>
        ret.map = collapseNodeIndeces(nodes, ids, cell, eps)

\* a run in which one node took two others, in either order
C29_Witness ==
    /\ pc = "returned"
    /\ \E p, t1, t2 \in DOMAIN nodes :
          /\ t1 # t2 /\ t1 # p /\ t2 # p
          /\ nodes[t1] # nodes[t2]
          /\ ret.map[t1] = p /\ ret.map[t2] = p

\* the positions of the nodes of _mesh that are copied, in ascending order
CopiedPositions(m) ==
    LET RECURSIVE From(_)
        From(p) == IF p > Len(m) THEN <<>>
                   ELSE IF m[p] = p THEN <<p>> \o From(p + 1)
                   ELSE From(p + 1)
    IN From(1)

\* C30: the mesh collapseNodes(eps) returns has N - getNCollapsableNodes(eps)
\* nodes; the identifiers given to the new nodes are their storage
\* positions; getNCollapsableNodes leaves the identifiers of the nodes of
\* _mesh as they were.
C30_NodeCountAndIds ==
    LET m == collapseNodeIndeces(nodes, Identity(Len(nodes)), cell, eps)
        kept == CopiedPositions(m)
    IN /\ (op = "collapseNodes" /\ pc = "done" /\ ret.kind = "mesh") =>
              Len(ret.nodes) = Len(nodes) -
                  getNCollapsableNodes(nodes, Identity(Len(nodes)), cell, eps)
       /\ (op = "collapseNodes" /\ pc = "copy") =>
              /\ Len(kept) = Len(new_nodes)
              /\ \A x \in DOMAIN kept :
                    /\ ids[kept[x]] = x
                    /\ new_nodes[x] = nodes[kept[x]]
       /\ (op = "getNCollapsableNodes" /\ pc = "done") =>
              ids = Identity(Len(nodes))

\* three nodes of which one was collapsed: the result has two
C30_Witness ==
    /\ op = "collapseNodes" /\ pc = "done" /\ ret.kind = "mesh"
    /\ Len(nodes) = 3
    /\ Len(ret.nodes) = 2
    /\ getNCollapsableNodes(nodes, Identity(Len(nodes)), cell, eps) = 1

====
